---- MODULE Spec2Model ----
(***************************************************************************)
(* Quiz session engine of the math problem generator: the quiz page (the   *)
(* client: generate, countdown, submit, tally), the two API routes it      *)
(* calls (POST /api/math-problem, POST /api/math-problem/submit) and the   *)
(* two tables they write (math_problem_sessions, math_problem_submissions).*)
(*                                                                         *)
(* Numbers are JavaScript numbers restricted to integers, plus NaN.        *)
(* Scores are counted in tenths of a point (1.5 points = 15).              *)
(***************************************************************************)
EXTENDS Integers, Sequences, FiniteSets, TLC

(***************************************************************************)
(* Bounds of the model.                                                    *)
(***************************************************************************)
\* rows the sessions table may hold
MaxSessions == 2
\* rows the submissions table may hold
MaxSubmissions == 2
\* cap of the running tally's attempted count
MaxAttempts == 2
\* seconds of the countdown between two looks at it
TickStride == 60
\* how many of the lowest and of the highest values of a random range are sampled
SampleWidth == 1
\* attempts counted by the tally section on its own
MaxShownAttempts == 40

(***************************************************************************)
(* JavaScript values.                                                      *)
(***************************************************************************)
\* Number("abc"): the not-a-number value, outside every range of the model
NaN == -1000000
\* null of a number-or-null state (timeLeft)
Null == -1
\* null of a session id (ids are the row numbers 1, 2, ... of the sessions table)
NoSession == 0

\* a === b on numbers: NaN is equal to nothing, itself included
StrictEquals(a, b) == a # NaN /\ b # NaN /\ a = b

\* A string is modelled by what Number() makes of it: a decimal numeral of a
\* number, the empty string, or a word that is no numeral.
Numeral(n) == [kind |-> "numeral", value |-> n]
EmptyString == [kind |-> "empty", value |-> 0]
Word == [kind |-> "word", value |-> 0]

\* Number(s) of a string
NumberOfString(s) ==
  CASE s.kind = "numeral" -> s.value
    [] s.kind = "empty" -> 0
    [] OTHER -> NaN

\* Number(v) of a tagged JSON value [type, num, str]
ToNumber(v) ==
  CASE v.type = "number" -> v.num
    [] v.type = "string" -> NumberOfString(v.str)
    [] OTHER -> NaN

Difficulties == {"Beginner", "Intermediate", "Advanced", "Expert"}
ProblemTypes == {"addition", "subtraction", "multiplication", "division", "mixed"}

(***************************************************************************)
(* difficultyConfig of the quiz page.                                      *)
(***************************************************************************)
timeLimit(d) ==
  CASE d = "Beginner" -> 120
    [] d = "Intermediate" -> 90
    [] d = "Advanced" -> 60
    [] d = "Expert" -> 45

\* in tenths of a point
multiplier(d) ==
  CASE d = "Beginner" -> 10
    [] d = "Intermediate" -> 15
    [] d = "Advanced" -> 20
    [] d = "Expert" -> 25

(***************************************************************************)
(* JavaScript number arithmetic of the accuracy display: IEEE 754 doubles, *)
(* round to nearest, ties to even.  A positive double is its 53 mantissa   *)
(* bits, most significant (a 1) first, and the exponent exp of its last    *)
(* bit: its value is bits * 2^exp.                                         *)
(***************************************************************************)
MantissaBits == 53
\* bits are worked on in groups of 11, which keeps every product below 2^31
Limb == 2 ^ 11

zeros(n) == [i \in 1..n |-> 0]

\* the natural number of a bit sequence of at most 11 bits
RECURSIVE natural(_)
natural(bits) ==
  IF bits = <<>> THEN 0
  ELSE 2 * natural(SubSeq(bits, 1, Len(bits) - 1)) + bits[Len(bits)]

\* bits + 1; one bit longer when every bit was 1
increment(bits) ==
  LET n == Len(bits)
      clear == {i \in 1..n : bits[i] = 0}
  IN IF clear = {} THEN <<1>> \o zeros(n)
     ELSE LET j == CHOOSE i \in clear : \A h \in clear : h <= i
          IN [i \in 1..n |-> IF i < j THEN bits[i] ELSE IF i = j THEN 1 ELSE 0]

\* the double nearest to bits * 2^exp, where bits starts with a 1 and has at
\* least 53 bits, and more says that the exact value lies above bits * 2^exp
\* (by less than 2^exp)
roundToDouble(bits, exp, more) ==
  LET n == Len(bits)
      kept == SubSeq(bits, 1, MantissaBits)
      dropped == SubSeq(bits, MantissaBits + 1, n)
      half == dropped # <<>> /\ dropped[1] = 1
      sticky == more \/ \E i \in 2..Len(dropped) : dropped[i] = 1
      up == half /\ (sticky \/ kept[MantissaBits] = 1)
      m == IF up THEN increment(kept) ELSE kept
      e == exp + (n - MantissaBits)
  IN IF Len(m) > MantissaBits
       THEN [bits |-> SubSeq(m, 1, MantissaBits), exp |-> e + 1]
       ELSE [bits |-> m, exp |-> e]

\* the remainder of r * 2^n by t, for r < t < 2^20
RECURSIVE remainder(_, _, _)
remainder(r, t, n) ==
  IF n <= 11 THEN (r * 2 ^ n) % t
  ELSE remainder((r * Limb) % t, t, n - 11)

\* the double s / t of two integers 0 < s <= t < 2^20: long division from the
\* quotient's first 1 bit on, for 55 bits, then rounding
divide(s, t) ==
  IF s = t
    THEN [bits |-> <<1>> \o zeros(MantissaBits - 1), exp |-> 1 - MantissaBits]
    ELSE LET lead == CHOOSE k \in 0..20 :      \* zeros before the first 1
                       /\ s * 2 ^ (k + 1) >= t
                       /\ s * 2 ^ k < t
             r == s * 2 ^ lead
             n == MantissaBits + 2
             bits == [j \in 1..n |-> (2 * remainder(r, t, j - 1)) \div t]
         IN roundToDouble(bits, 0 - (lead + n), remainder(r, t, n) # 0)

\* bits * k for a natural k < 2^19, a group of 11 bits at a time from the
\* least significant one, with carry; group i holds the bits worth
\* 2^(11 i) .. 2^(11 i + 10)
group(bits, i) ==
  LET n == Len(bits)
      last == n - 11 * i
  IN natural(SubSeq(bits, IF last > 11 THEN last - 10 ELSE 1, last))

\* the groups of bits * k, least significant first, and last the carry out
\* of the highest group of bits
RECURSIVE productGroups(_, _, _, _)
productGroups(bits, k, i, carry) ==
  IF 11 * i >= Len(bits) THEN <<carry>>
  ELSE LET v == group(bits, i) * k + carry
       IN <<v % Limb>> \o productGroups(bits, k, i + 1, v \div Limb)

timesBits(bits, k) ==
  LET groups == productGroups(bits, k, 0, 0)
      n == 11 * Len(groups)
      all == [j \in 1..n |-> (groups[(n - j) \div 11 + 1] \div 2 ^ ((n - j) % 11)) % 2]
      first == CHOOSE j \in 1..n : all[j] = 1 /\ \A i \in 1..(j - 1) : all[i] = 0
  IN SubSeq(all, first, n)

\* the double x * k
times(x, k) == roundToDouble(timesBits(x.bits, k), x.exp, FALSE)

\* Math.round(x) of a double 0 < x < 2^31: the nearest integer, a half
\* rounded up
MathRound(x) ==
  LET whole == MantissaBits + x.exp      \* bits before the binary point
  IN IF whole < 0 THEN 0
     ELSE natural(SubSeq(x.bits, 1, whole))
            + (IF whole < MantissaBits THEN x.bits[whole + 1] ELSE 0)

\* the accuracy display: Math.round((score / totalProblems) * 100), and 0
\* when nothing was attempted; for 0 <= correct <= attempted
accuracy(correct, attempted) ==
  IF attempted > 0
    THEN IF correct = 0 THEN 0
         ELSE MathRound(times(divide(correct, attempted), 100))
    ELSE 0

(***************************************************************************)
(* Problem generation service: POST /api/math-problem.                     *)
(*                                                                         *)
(* A problem text is the template it was written from and the numbers it   *)
(* states; the text of an AI reply is opaque (template "ai").  A hint is   *)
(* named by the template it belongs to.                                    *)
(*                                                                         *)
(* The AI call is everything the environment decides about it: whether     *)
(* GOOGLE_API_KEY is set, how fetch ends, what the reply text is, and the  *)
(* JavaScript types of the three fields of the JSON object found in it.    *)
(***************************************************************************)
Num(n) == [type |-> "number", num |-> n, str |-> EmptyString]
Str(s) == [type |-> "string", num |-> 0, str |-> s]
Other == [type |-> "other", num |-> 0, str |-> EmptyString]

\* the values final_answer takes in a reply: numbers, numeric strings, a
\* non-numeric string, and a value that is neither (null, boolean, missing)
FinalAnswers == {Num(14), Num(15), Str(Numeral(15)), Str(Word), Other}

AICall(key, http, text, pt, fa, hint) ==
  [key |-> key, http |-> http, text |-> text, pt |-> pt, fa |-> fa, hint |-> hint]

\* one call per way the attempt can end before the fields are looked at ...
AIBroken ==
  { AICall(FALSE, "ok", "json", "string", Num(15), "string"),
    AICall(TRUE, "throw", "json", "string", Num(15), "string"),
    AICall(TRUE, "notok", "json", "string", Num(15), "string"),
    AICall(TRUE, "ok", "none", "string", Num(15), "string"),
    AICall(TRUE, "ok", "nojson", "string", Num(15), "string"),
    AICall(TRUE, "ok", "badjson", "string", Num(15), "string") }

\* ... and every combination of field types of a reply that parses
AIParsed ==
  { AICall(TRUE, "ok", "json", pt, fa, hint) :
      pt \in {"string", "other"}, fa \in FinalAnswers, hint \in {"string", "other"} }

AICalls == AIBroken \cup AIParsed

\* "Use numbers up to ..." of the prompt of the AI branch
magnitude(difficulty) ==
  CASE difficulty = "Beginner" -> 50
    [] difficulty = "Intermediate" -> 100
    [] difficulty = "Advanced" -> 500
    [] difficulty = "Expert" -> 1000
    [] OTHER -> 50

\* the values Math.floor(Math.random() * n) is sampled at: the lowest and the
\* highest SampleWidth values of 0 .. n-1
Floors(n) == { x \in 0..(n - 1) : x < SampleWidth \/ x >= n - SampleWidth }

maxA(difficulty) ==
  CASE difficulty = "Beginner" -> 50
    [] difficulty = "Intermediate" -> 100
    [] difficulty = "Advanced" -> 300
    [] difficulty = "Expert" -> 500
    [] OTHER -> 50

maxB(difficulty) ==
  CASE difficulty = "Beginner" -> 20
    [] difficulty = "Intermediate" -> 50
    [] difficulty = "Advanced" -> 100
    [] difficulty = "Expert" -> 200
    [] OTHER -> 20

Max(x, y) == IF x >= y THEN x ELSE y
Min(x, y) == IF x <= y THEN x ELSE y

Text(template, nums) == [template |-> template, nums |-> nums]

\* mutant: the division problem states the dividend as drawn, as the mixed
\* problem does, not the multiple of the divisor below it
generateFallbackProblem_DivisionAsDrawn(type, difficulty, rnd) ==
  LET a == rnd.a + 1
      b == rnd.b + 1
  IN CASE type = "addition" ->
            [problem_text |-> Text("addition", <<a, b>>),
             final_answer |-> a + b,
             hint |-> "addition"]
       [] type = "subtraction" ->
            [problem_text |-> Text("subtraction", <<Max(a, b), Min(a, b)>>),
             final_answer |-> Max(a, b) - Min(a, b),
             hint |-> "subtraction"]
       [] type = "multiplication" ->
            [problem_text |-> Text("multiplication",
                                   <<rnd.small_a + 2, rnd.small_b + 2>>),
             final_answer |-> (rnd.small_a + 2) * (rnd.small_b + 2),
             hint |-> "multiplication"]
       [] type = "division" ->
            [problem_text |-> Text("division",
                                   <<rnd.dividend + 10, rnd.divisor + 2>>),
             final_answer |-> (rnd.dividend + 10) \div (rnd.divisor + 2),
             hint |-> "division"]
       [] OTHER ->
            [problem_text |-> Text("mixed", <<a, b>>),
             final_answer |-> a \div b,
             hint |-> "mixed"]

\* rnd: the six Math.floor(Math.random() * n) values the function may draw
generateFallbackProblem(type, difficulty, rnd) ==
  LET a == rnd.a + 1
      b == rnd.b + 1
  IN CASE type = "addition" ->
            [problem_text |-> Text("addition", <<a, b>>),
             final_answer |-> a + b,
             hint |-> "addition"]
       [] type = "subtraction" ->
            LET larger == Max(a, b)
                smaller == Min(a, b)
            IN [problem_text |-> Text("subtraction", <<larger, smaller>>),
                final_answer |-> larger - smaller,
                hint |-> "subtraction"]
       [] type = "multiplication" ->
            LET small_a == rnd.small_a + 2
                small_b == rnd.small_b + 2
            IN [problem_text |-> Text("multiplication", <<small_a, small_b>>),
                final_answer |-> small_a * small_b,
                hint |-> "multiplication"]
       [] type = "division" ->
            LET dividend == rnd.dividend + 10
                divisor == rnd.divisor + 2
                quotient == dividend \div divisor
                actualDividend == quotient * divisor
            IN [problem_text |-> Text("division", <<actualDividend, divisor>>),
                final_answer |-> quotient,
                hint |-> "division"]
       [] OTHER ->
            [problem_text |-> Text("mixed", <<a, b>>),
             final_answer |-> a \div b,
             hint |-> "mixed"]

\* the parsed object the AI branch returns, final_answer made a number; a
\* field that is no string is named "not_a_string"
ParsedReply(ai) ==
  [problem_text |-> Text(IF ai.pt = "string" THEN "ai" ELSE "not_a_string", <<>>),
   final_answer |-> ToNumber(ai.fa),
   hint |-> IF ai.hint = "string" THEN "ai" ELSE "not_a_string"]

\* the reply passes every check of the AI branch and is returned
AIReplyAccepted(ai) ==
  /\ ai.key
  /\ ai.http = "ok"
  /\ ai.text = "json"
  /\ ai.pt = "string"
  /\ ai.fa.type \in {"number", "string"}
  /\ ai.hint = "string"

\* mutant: the reply is accepted without looking at its hint
callAIForProblem_HintUnchecked(problemType, difficulty, ai, rnd) ==
  IF /\ ai.key
     /\ ai.http = "ok"
     /\ ai.text = "json"
     /\ ai.pt = "string"
     /\ ai.fa.type \in {"number", "string"}
    THEN ParsedReply(ai)
    ELSE generateFallbackProblem(problemType, difficulty, rnd)

callAIForProblem(problemType, difficulty, ai, rnd) ==
  IF AIReplyAccepted(ai)
    THEN ParsedReply(ai)
    ELSE generateFallbackProblem(problemType, difficulty, rnd)

\* the draws a fallback of this type and difficulty reads; the others are 0
Rnds(type, difficulty) ==
  LET Z == {0}
      ab == type \in {"addition", "subtraction", "mixed"}
  IN [a : IF ab THEN Floors(maxA(difficulty)) ELSE Z,
      b : IF ab THEN Floors(maxB(difficulty)) ELSE Z,
      small_a : IF type = "multiplication" THEN Floors(12) ELSE Z,
      small_b : IF type = "multiplication" THEN Floors(10) ELSE Z,
      dividend : IF type = "division" THEN Floors(50) ELSE Z,
      divisor : IF type = "division" THEN Floors(8) ELSE Z]

(***************************************************************************)
(* Feedback service of POST /api/math-problem/submit.                      *)
(* A feedback text is its kind and the answer it states (0 when none).     *)
(***************************************************************************)
Fb(kind, answer) == [kind |-> kind, answer |-> answer]
NoFeedbackText == Fb("empty", 0)

\* fb: how the AI call ends: key set or not, how fetch ends, and the reply
\* text ("none": not a string, "blank": trims to the empty string, "text")
FeedbackCall(key, http, text) == [key |-> key, http |-> http, text |-> text]
FeedbackCalls ==
  { FeedbackCall(FALSE, "ok", "text"),
    FeedbackCall(TRUE, "throw", "text"),
    FeedbackCall(TRUE, "notok", "text"),
    FeedbackCall(TRUE, "ok", "none"),
    FeedbackCall(TRUE, "ok", "blank"),
    FeedbackCall(TRUE, "ok", "text") }

callAIForFeedback(fb, correctAnswer, isCorrect) ==
  IF fb.key /\ fb.http = "ok"
    THEN CASE fb.text = "text" -> Fb("ai", 0)
           [] fb.text = "blank" -> Fb("empty", 0)
           [] OTHER -> Fb("undefined", 0)
    ELSE IF isCorrect
           THEN Fb("well_done", 0)
           ELSE Fb("nice_try", correctAnswer)

(***************************************************************************)
(* State.                                                                  *)
(***************************************************************************)
VARIABLES
  \* the store
  math_problem_sessions,      \* sequence of rows; a row's id is its index
  math_problem_submissions,   \* sequence of rows
  \* the quiz page (React state of QuizPage)
  problem, userAnswer, feedback, isGenerating, isSubmitting, sessionId,
  isCorrect, score, totalProblems, totalScore, problemType, difficulty,
  timeLeft, isTimerActive, showTimeUpPopup,
  \* requests of the page in flight, with the values their closures captured
  genReq, subReq,
  \* the generation service on its own: one call and its result
  gen,
  \* the submit service on its own: one call and its result
  sub,
  \* the solution service on its own: one call and its result
  sol,
  \* the percentage the tally section of the page shows
  accuracyShown,
  \* the history service on its own: one call and its result
  hist,
  \* the high-scores service on its own: one call and its result
  board,
  \* the users table, and the login calls in progress with what they returned
  users, login

store == <<math_problem_sessions, math_problem_submissions>>
tally == <<score, totalProblems, totalScore>>
timer == <<timeLeft, isTimerActive, showTimeUpPopup>>
selectors == <<problemType, difficulty>>
page == <<problem, userAnswer, feedback, isGenerating, isSubmitting, sessionId,
          isCorrect>>
\* the services that only read the store or keep tables of their own
apis == <<hist, board, users, login>>
vars == <<store, page, tally, timer, selectors, genReq, subReq, gen, sub,
          sol, accuracyShown, apis>>

NoProblem == [present |-> FALSE]
\* isCorrect is true, false or null
Tri == {"true", "false", "null"}

IdleReq == [phase |-> "idle"]
GenIdle == [phase |-> "idle"]
SubIdle == [phase |-> "idle"]
SolIdle == [phase |-> "idle"]
HistIdle == [phase |-> "idle"]
BoardIdle == [phase |-> "idle"]
\* login calls that may be in progress at once
LoginCallers == 1..2
LoginIdle == [calls |-> [p \in LoginCallers |-> [pc |-> "idle"]],
              returned |-> {}]

(***************************************************************************)
(* The store: inserts of the two tables (schema of database.sql).          *)
(***************************************************************************)
\* correct_answer NUMERIC NOT NULL: NaN is sent as JSON null;
\* difficulty_level CHECK (... IN the four tiers)
SessionRowAccepted(row) ==
  /\ row.correct_answer # NaN
  /\ row.difficulty_level \in Difficulties

\* session_id REFERENCES math_problem_sessions(id); feedback_text TEXT NOT NULL
\* (an undefined property is left out of the JSON body)
SubmissionRowAccepted(row) ==
  /\ row.session_id \in 1..Len(math_problem_sessions)
  /\ row.user_answer # NaN
  /\ row.feedback_text.kind # "undefined"

SubmissionsOf(sid) ==
  { i \in 1..Len(math_problem_submissions) :
      math_problem_submissions[i].session_id = sid }

(***************************************************************************)
(* Inputs of the quiz machine: what the user picks and types, and what the *)
(* environment decides for each request.                                   *)
(***************************************************************************)
QuizDifficulties == {"Beginner", "Expert"}
QuizProblemTypes == {"mixed", "addition"}
\* what the user types: nothing, or the numeral 15
QuizInputs == {EmptyString, Numeral(15)}
\* AI calls of a generate request: no key (the fallback serves it), and an
\* accepted reply whose final_answer is a non-numeric string
QuizAICalls ==
  { AICall(FALSE, "ok", "json", "string", Num(15), "string"),
    AICall(TRUE, "ok", "json", "string", Str(Word), "string") }
\* the draws of a fallback: a = 14 and b = 1, so that what the user types is
\* the answer of an addition problem (14 + 1) and 1 off the answer of a
\* mixed problem (floor(14 / 1))
QuizRnds == { [a |-> 13, b |-> 0, small_a |-> 0, small_b |-> 0,
               dividend |-> 0, divisor |-> 0] }
\* AI calls of a submit request: no key, and a reply without text
QuizFeedbackCalls ==
  { FeedbackCall(FALSE, "ok", "text"), FeedbackCall(TRUE, "ok", "none") }

Init ==
  /\ math_problem_sessions = <<>>
  /\ math_problem_submissions = <<>>
  /\ problem = NoProblem
  /\ userAnswer = EmptyString
  /\ feedback = NoFeedbackText
  /\ isGenerating = FALSE
  /\ isSubmitting = FALSE
  /\ sessionId = NoSession
  /\ isCorrect = "null"
  /\ score = 0
  /\ totalProblems = 0
  /\ totalScore = 0
  /\ problemType = "mixed"
  /\ difficulty = "Beginner"
  /\ timeLeft = Null
  /\ isTimerActive = FALSE
  /\ showTimeUpPopup = FALSE
  /\ genReq = IdleReq
  /\ subReq = IdleReq
  /\ gen = GenIdle
  /\ sub = SubIdle
  /\ sol = SolIdle
  /\ accuracyShown = accuracy(0, 0)
  /\ hist = HistIdle
  /\ board = BoardIdle
  /\ users = <<>>
  /\ login = LoginIdle

(***************************************************************************)
(* The quiz page.                                                          *)
(***************************************************************************)
\* difficulty selector buttons
setDifficulty ==
  \E level \in QuizDifficulties :
    /\ level # difficulty
    /\ difficulty' = level
    /\ UNCHANGED <<apis, store, page, tally, timer, problemType, genReq, subReq, gen, sub, sol,
                   accuracyShown>>

\* problem type <select>
setProblemType ==
  \E t \in QuizProblemTypes :
    /\ t # problemType
    /\ problemType' = t
    /\ UNCHANGED <<apis, store, page, tally, timer, difficulty, genReq, subReq, gen, sub, sol,
                   accuracyShown>>

\* answer <input>, shown with the problem, disabled while submitting
setUserAnswer ==
  \E v \in QuizInputs :
    /\ problem.present
    /\ ~isSubmitting
    /\ v # userAnswer
    /\ userAnswer' = v
    /\ UNCHANGED <<apis, store, problem, feedback, isGenerating, isSubmitting,
                   sessionId, isCorrect, tally, timer, selectors, genReq,
                   subReq, gen, sub, sol, accuracyShown>>

\* mutant: the reset that leaves the total score as it is
resetScore_KeepsTotalScore ==
  /\ score' = 0
  /\ totalProblems' = 0
  /\ feedback' = NoFeedbackText
  /\ isCorrect' = "null"
  /\ timeLeft' = Null
  /\ isTimerActive' = FALSE
  /\ showTimeUpPopup' = FALSE
  /\ UNCHANGED <<apis, store, problem, userAnswer, isGenerating, isSubmitting,
                 sessionId, totalScore, selectors, genReq, subReq, gen, sub, sol>>
  /\ accuracyShown' = accuracy(score', totalProblems')

resetScore ==
  /\ score' = 0
  /\ totalProblems' = 0
  /\ totalScore' = 0
  /\ feedback' = NoFeedbackText
  /\ isCorrect' = "null"
  /\ timeLeft' = Null
  /\ isTimerActive' = FALSE
  /\ showTimeUpPopup' = FALSE
  /\ UNCHANGED <<apis, store, problem, userAnswer, isGenerating, isSubmitting,
                 sessionId, selectors, genReq, subReq, gen, sub, sol>>
  /\ accuracyShown' = accuracy(score', totalProblems')

\* generateProblem up to its fetch: the request carries the selectors, and
\* the closure keeps the difficulty for startTimer
generateProblemSend ==
  /\ isGenerating' = TRUE
  /\ feedback' = NoFeedbackText
  /\ isCorrect' = "null"
  /\ isTimerActive' = FALSE
  /\ timeLeft' = Null
  /\ showTimeUpPopup' = FALSE
  /\ genReq' = [phase |-> "sent", problemType |-> problemType,
                difficulty |-> difficulty]
  /\ UNCHANGED <<apis, store, problem, userAnswer, isSubmitting, sessionId, tally,
                 selectors, subReq, gen, sub, sol, accuracyShown>>

\* "Generate New Problem" button, disabled while isGenerating
generateProblem ==
  /\ ~isGenerating
  /\ genReq.phase = "idle"
  /\ generateProblemSend

\* "Try Again" button of the time-up popup
handleTryAgain ==
  /\ showTimeUpPopup
  /\ genReq.phase = "idle"
  /\ generateProblemSend

\* "Close" button of the time-up popup
closeTimeUpPopup ==
  /\ showTimeUpPopup
  /\ showTimeUpPopup' = FALSE
  /\ UNCHANGED <<apis, store, page, tally, timeLeft, isTimerActive, selectors,
                 genReq, subReq, gen, sub, sol, accuracyShown>>

\* mutant: the countdown starts at the Beginner limit whatever the difficulty
startTimerAt_Beginner(d) == timeLimit("Beginner")

startTimerAt(d) == timeLimit(d)

\* mutant: generateProblem without its catch and finally: a failed request
\* is never taken up again
generateProblemReceive_NoFinally ==
  /\ genReq.phase = "replied"
  /\ genReq.ok
  /\ problem' = [present |-> TRUE,
                 problem_text |-> genReq.problem.problem_text,
                 final_answer |-> genReq.problem.final_answer,
                 hint |-> genReq.problem.hint]
  /\ sessionId' = genReq.sessionId
  /\ userAnswer' = EmptyString
  /\ timeLeft' = startTimerAt(genReq.difficulty)
  /\ isTimerActive' = TRUE
  /\ isGenerating' = FALSE
  /\ genReq' = IdleReq
  /\ UNCHANGED <<apis, store, feedback, isSubmitting, isCorrect, tally,
                 showTimeUpPopup, selectors, subReq, gen, sub, sol,
                 accuracyShown>>

\* generateProblem after its fetch
generateProblemReceive ==
  /\ genReq.phase = "replied"
  /\ IF genReq.ok
       THEN /\ problem' = [present |-> TRUE,
                           problem_text |-> genReq.problem.problem_text,
                           final_answer |-> genReq.problem.final_answer,
                           hint |-> genReq.problem.hint]
            /\ sessionId' = genReq.sessionId
            /\ userAnswer' = EmptyString
            /\ timeLeft' = startTimerAt(genReq.difficulty)
            /\ isTimerActive' = TRUE
            /\ UNCHANGED feedback
       ELSE /\ feedback' = Fb("error_generating", 0)
            /\ UNCHANGED <<problem, sessionId, userAnswer, timeLeft,
                           isTimerActive>>
  /\ isGenerating' = FALSE
  /\ genReq' = IdleReq
  /\ UNCHANGED <<apis, store, isSubmitting, isCorrect, tally, showTimeUpPopup,
                 selectors, subReq, gen, sub, sol, accuracyShown>>

\* the solution section, with its "Get Step-by-Step Solution" button, is
\* rendered while feedback is a non-empty string
solutionSectionShown == feedback # NoFeedbackText

\* the answer form is rendered with the problem and its "Submit Answer"
\* button is enabled: the input is not empty and no submit is in flight
submitOffered == problem.present /\ userAnswer # EmptyString /\ ~isSubmitting

\* attempts the tally may still take, the submit in flight counted
AttemptsLeft ==
  MaxAttempts - totalProblems - (IF subReq.phase = "idle" THEN 0 ELSE 1)

\* timeUsed of the request body
timeUsedNow ==
  IF timeLeft # Null THEN timeLimit(difficulty) - timeLeft ELSE 0

\* submitAnswerInternal up to its fetch (the answer form's submit button is
\* disabled while the input is empty or a submit is in flight)
submitAnswerSend ==
  /\ problem.present
  /\ userAnswer # EmptyString
  /\ ~isSubmitting
  /\ subReq.phase = "idle"
  /\ AttemptsLeft > 0
  /\ IF sessionId = NoSession
       THEN /\ feedback' = Fb("no_session", 0)
            /\ UNCHANGED <<isSubmitting, isTimerActive, subReq>>
       ELSE /\ isSubmitting' = TRUE
            /\ feedback' = NoFeedbackText
            /\ isTimerActive' = FALSE
            /\ subReq' = [phase |-> "sent",
                          sessionId |-> sessionId,
                          userAnswer |-> NumberOfString(userAnswer),
                          difficulty |-> difficulty,
                          timeUsed |-> timeUsedNow,
                          currentTotalScore |-> totalScore]
  /\ UNCHANGED <<apis, store, problem, userAnswer, isGenerating, sessionId,
                 isCorrect, tally, timeLeft, showTimeUpPopup, selectors,
                 genReq, gen, sub, sol, accuracyShown>>

\* mutant: the multiplier is added whether or not the answer is correct
accumulate_ScoreAlways(t, correct, d) ==
  [totalProblems |-> t.totalProblems + 1,
   score |-> IF correct THEN t.score + 1 ELSE t.score,
   totalScore |-> t.totalScore + multiplier(d)]

\* the running tally after an evaluated submission
accumulate(t, correct, d) ==
  [totalProblems |-> t.totalProblems + 1,
   score |-> IF correct THEN t.score + 1 ELSE t.score,
   totalScore |-> IF correct THEN t.totalScore + multiplier(d) ELSE t.totalScore]

Tally == [score |-> score, totalProblems |-> totalProblems,
          totalScore |-> totalScore]

\* submitAnswerInternal after its fetch
submitAnswerReceive ==
  /\ subReq.phase = "replied"
  /\ IF subReq.status = 200
       THEN LET t == accumulate(Tally, subReq.isCorrect, subReq.difficulty)
            IN /\ feedback' = IF subReq.feedback.kind = "empty"
                                THEN Fb("no_feedback", 0)
                                ELSE subReq.feedback
               /\ isCorrect' = IF subReq.isCorrect THEN "true" ELSE "false"
               /\ totalProblems' = t.totalProblems
               /\ score' = t.score
               /\ totalScore' = t.totalScore
       ELSE /\ feedback' = Fb("error_submitting", 0)
            /\ UNCHANGED <<isCorrect, tally>>
  /\ isSubmitting' = FALSE
  /\ subReq' = IdleReq
  /\ UNCHANGED <<apis, store, problem, userAnswer, isGenerating, sessionId, timer,
                 selectors, genReq, gen, sub, sol>>
  /\ accuracyShown' = accuracy(score', totalProblems')

\* k runs in a row of the interval callback of the timer effect, the last
\* one alone allowed to be the expiring one: while timeLeft > 1 a run takes 1
\* off, and the run that finds timeLeft <= 1 ends the countdown
timerTicks(k) ==
  /\ isTimerActive
  /\ timeLeft # Null
  /\ timeLeft > 0
  /\ IF timeLeft <= 1
       THEN /\ k = 1
            /\ AttemptsLeft > 0
            /\ isTimerActive' = FALSE
            /\ totalProblems' = totalProblems + 1
            /\ showTimeUpPopup' = TRUE
            /\ timeLeft' = 0
       ELSE /\ k < timeLeft
            /\ timeLeft' = timeLeft - k
            /\ UNCHANGED <<isTimerActive, totalProblems, showTimeUpPopup>>
  /\ UNCHANGED <<apis, store, page, score, totalScore, selectors, genReq, subReq, gen, sub, sol>>
  /\ accuracyShown' = accuracy(score', totalProblems')

\* mutant: the run of the callback that finds timeLeft <= 1 does nothing
timerTick_NoExpiry ==
  /\ timeLeft # Null
  /\ timeLeft > 1
  /\ timerTicks(Min(TickStride, timeLeft - 1))

\* the countdown is looked at every TickStride seconds, in its last second
\* and when it ends
timerTick ==
  timerTicks(IF timeLeft > 1 THEN Min(TickStride, timeLeft - 1) ELSE 1)

(***************************************************************************)
(* POST /api/math-problem: generate, insert the session row, respond.      *)
(* dbOk: whether the store performs the insert (it may fail on its own).   *)
(***************************************************************************)
PostMathProblem(body, ai, rnd, dbOk, newId) ==
  LET p == callAIForProblem(body.problemType, body.difficulty, ai, rnd)
      row == [problem_text |-> p.problem_text,
              correct_answer |-> p.final_answer,
              difficulty_level |-> body.difficulty,
              hint |-> p.hint]
      inserted == dbOk /\ SessionRowAccepted(row)
  IN [inserted |-> inserted,
      row |-> row,
      ok |-> inserted,
      problem |-> IF inserted
                    THEN [problem_text |-> p.problem_text,
                          final_answer |-> p.final_answer,
                          hint |-> p.hint]
                    ELSE [error |-> "Database error"],
      sessionId |-> IF inserted THEN newId ELSE NoSession]

postMathProblem ==
  /\ genReq.phase = "sent"
  /\ \E ai \in QuizAICalls, rnd \in QuizRnds, dbOk \in BOOLEAN :
       LET r == PostMathProblem(genReq, ai, rnd, dbOk,
                                Len(math_problem_sessions) + 1)
       IN /\ r.inserted => Len(math_problem_sessions) < MaxSessions
          /\ math_problem_sessions' =
               IF r.inserted THEN Append(math_problem_sessions, r.row)
                             ELSE math_problem_sessions
          /\ genReq' = [phase |-> "replied",
                        problemType |-> genReq.problemType,
                        difficulty |-> genReq.difficulty,
                        ok |-> r.ok,
                        problem |-> r.problem,
                        sessionId |-> r.sessionId]
  /\ UNCHANGED <<apis, math_problem_submissions, page, tally, timer, selectors,
                 subReq, gen, sub, sol, accuracyShown>>

(***************************************************************************)
(* POST /api/math-problem/submit: validate, fetch the session, compare,    *)
(* get feedback, insert the submission row, respond.                       *)
(***************************************************************************)
\* mutant: answers within 1 of the correct answer count as correct
evaluate_Tolerant(correctAnswer, answer) ==
  /\ answer # NaN
  /\ correctAnswer # NaN
  /\ answer - correctAnswer \in -1..1

\* Number(userAnswer) === Number(session.correct_answer)
evaluate(correctAnswer, answer) == StrictEquals(answer, correctAnswer)

\* mutant: the type of userAnswer is not validated
PostSubmit_AnswerTypeUnchecked(body, fb, dbOk) ==
  LET Reply(status, row, correct, text) ==
        [status |-> status, inserted |-> status = 200, row |-> row,
         isCorrect |-> correct, feedback |-> text]
      NoRow == [session_id |-> NoSession]
  IN IF body.sessionId = NoSession
       THEN Reply(400, NoRow, FALSE, NoFeedbackText)
       ELSE IF body.sessionId \notin 1..Len(math_problem_sessions)
         THEN Reply(404, NoRow, FALSE, NoFeedbackText)
         ELSE
           LET session == math_problem_sessions[body.sessionId]
               correctAnswer == session.correct_answer
               correct == evaluate(correctAnswer, body.userAnswer)
               text == callAIForFeedback(fb, correctAnswer, correct)
               row == [session_id |-> body.sessionId,
                       user_answer |-> body.userAnswer,
                       is_correct |-> correct,
                       feedback_text |-> text,
                       \* columns the insert leaves to their defaults
                       difficulty_level |-> "Beginner",
                       time_used_seconds |-> 0,
                       total_score |-> 0]
           IN IF dbOk /\ SubmissionRowAccepted(row)
                THEN Reply(200, row, correct, text)
                ELSE Reply(500, NoRow, FALSE, NoFeedbackText)

PostSubmit(body, fb, dbOk) ==
  LET Reply(status, row, correct, text) ==
        [status |-> status, inserted |-> status = 200, row |-> row,
         isCorrect |-> correct, feedback |-> text]
      NoRow == [session_id |-> NoSession]
  IN IF body.sessionId = NoSession \/ body.userAnswer = NaN
       THEN Reply(400, NoRow, FALSE, NoFeedbackText)
       ELSE IF body.sessionId \notin 1..Len(math_problem_sessions)
         THEN Reply(404, NoRow, FALSE, NoFeedbackText)
         ELSE
           LET session == math_problem_sessions[body.sessionId]
               correctAnswer == session.correct_answer
               correct == evaluate(correctAnswer, body.userAnswer)
               text == callAIForFeedback(fb, correctAnswer, correct)
               row == [session_id |-> body.sessionId,
                       user_answer |-> body.userAnswer,
                       is_correct |-> correct,
                       feedback_text |-> text,
                       \* columns the insert leaves to their defaults
                       difficulty_level |-> "Beginner",
                       time_used_seconds |-> 0,
                       total_score |-> 0]
           IN IF dbOk /\ SubmissionRowAccepted(row)
                THEN Reply(200, row, correct, text)
                ELSE Reply(500, NoRow, FALSE, NoFeedbackText)

\* mutant: the submission is written over the last row of the table
postSubmit_Overwrite ==
  /\ subReq.phase = "sent"
  /\ \E fb \in QuizFeedbackCalls, dbOk \in BOOLEAN :
       LET r == PostSubmit(subReq, fb, dbOk)
       IN /\ r.inserted => Len(math_problem_submissions) < MaxSubmissions
          /\ math_problem_submissions' =
               IF ~r.inserted THEN math_problem_submissions
               ELSE IF math_problem_submissions = <<>> THEN <<r.row>>
               ELSE [math_problem_submissions EXCEPT
                       ![Len(math_problem_submissions)] = r.row]
          /\ subReq' = [phase |-> "replied",
                        sessionId |-> subReq.sessionId,
                        userAnswer |-> subReq.userAnswer,
                        difficulty |-> subReq.difficulty,
                        timeUsed |-> subReq.timeUsed,
                        currentTotalScore |-> subReq.currentTotalScore,
                        status |-> r.status,
                        isCorrect |-> r.isCorrect,
                        feedback |-> r.feedback]
  /\ UNCHANGED <<apis, math_problem_sessions, page, tally, timer, selectors,
                 genReq, gen, sub, sol, accuracyShown>>

postSubmit ==
  /\ subReq.phase = "sent"
  /\ \E fb \in QuizFeedbackCalls, dbOk \in BOOLEAN :
       LET r == PostSubmit(subReq, fb, dbOk)
       IN /\ r.inserted => Len(math_problem_submissions) < MaxSubmissions
          /\ math_problem_submissions' =
               IF r.inserted THEN Append(math_problem_submissions, r.row)
                             ELSE math_problem_submissions
          /\ subReq' = [phase |-> "replied",
                        sessionId |-> subReq.sessionId,
                        userAnswer |-> subReq.userAnswer,
                        difficulty |-> subReq.difficulty,
                        timeUsed |-> subReq.timeUsed,
                        currentTotalScore |-> subReq.currentTotalScore,
                        status |-> r.status,
                        isCorrect |-> r.isCorrect,
                        feedback |-> r.feedback]
  /\ UNCHANGED <<apis, math_problem_sessions, page, tally, timer, selectors,
                 genReq, gen, sub, sol, accuracyShown>>

Next ==
  \/ setDifficulty
  \/ setProblemType
  \/ setUserAnswer
  \/ resetScore
  \/ generateProblem
  \/ handleTryAgain
  \/ closeTimeUpPopup
  \/ generateProblemReceive
  \/ submitAnswerSend
  \/ submitAnswerReceive
  \/ timerTick
  \/ postMathProblem
  \/ postSubmit

Spec == Init /\ [][Next]_vars

(***************************************************************************)
(* The generation service on its own: one POST /api/math-problem for every *)
(* operation type, difficulty, AI call, sampled draw and store outcome.    *)
(***************************************************************************)
InitGen ==
  /\ math_problem_sessions = <<>>
  /\ math_problem_submissions = <<>>
  /\ problem = NoProblem
  /\ userAnswer = EmptyString
  /\ feedback = NoFeedbackText
  /\ isGenerating = FALSE
  /\ isSubmitting = FALSE
  /\ sessionId = NoSession
  /\ isCorrect = "null"
  /\ score = 0
  /\ totalProblems = 0
  /\ totalScore = 0
  /\ problemType = "mixed"
  /\ difficulty = "Beginner"
  /\ timeLeft = Null
  /\ isTimerActive = FALSE
  /\ showTimeUpPopup = FALSE
  /\ genReq = IdleReq
  /\ subReq = IdleReq
  /\ sub = SubIdle
  /\ sol = SolIdle
  /\ accuracyShown = accuracy(0, 0)
  /\ hist = HistIdle
  /\ board = BoardIdle
  /\ users = <<>>
  /\ login = LoginIdle
  /\ \E t \in ProblemTypes, d \in Difficulties, ai \in AICalls, dbOk \in BOOLEAN :
       \E rnd \in Rnds(t, d) :
         gen = [phase |-> "called", problemType |-> t, difficulty |-> d,
                ai |-> ai, rnd |-> rnd, dbOk |-> dbOk]

generateCall ==
  /\ gen.phase = "called"
  /\ LET r == PostMathProblem(gen, gen.ai, gen.rnd, gen.dbOk, 1)
     IN gen' = [phase |-> "returned", problemType |-> gen.problemType,
                difficulty |-> gen.difficulty, ai |-> gen.ai, rnd |-> gen.rnd,
                dbOk |-> gen.dbOk,
                generated |-> callAIForProblem(gen.problemType, gen.difficulty,
                                               gen.ai, gen.rnd),
                inserted |-> r.inserted, row |-> r.row, ok |-> r.ok,
                response |-> r.problem]
  /\ UNCHANGED <<apis, store, page, tally, timer, selectors, genReq, subReq, sub, sol,
                 accuracyShown>>

NextGen == generateCall

SpecGen == InitGen /\ [][NextGen]_vars

(***************************************************************************)
(* The submit service on its own: one POST /api/math-problem/submit, on a  *)
(* store that holds the session of one fallback addition problem, for      *)
(* every request body, AI feedback call and store outcome.                 *)
(***************************************************************************)
\* session ids of a request body: none, the stored session, an unknown one
SubmitSessionIds == {NoSession, 1, 2}
\* userAnswer of a request body: 1 off the answer, the answer, no number
SubmitAnswers == {14, 15, NaN}
\* timeUsed of a request body
SubmitTimes == {0, 30}

InitSubmit ==
  /\ \E d \in QuizDifficulties, rnd \in QuizRnds :
       math_problem_sessions =
         <<PostMathProblem([problemType |-> "addition", difficulty |-> d],
                           AICall(FALSE, "ok", "json", "string", Num(15), "string"),
                           rnd, TRUE, 1).row>>
  /\ math_problem_submissions = <<>>
  /\ problem = NoProblem
  /\ userAnswer = EmptyString
  /\ feedback = NoFeedbackText
  /\ isGenerating = FALSE
  /\ isSubmitting = FALSE
  /\ sessionId = NoSession
  /\ isCorrect = "null"
  /\ score = 0
  /\ totalProblems = 0
  /\ totalScore = 0
  /\ problemType = "mixed"
  /\ difficulty = "Beginner"
  /\ timeLeft = Null
  /\ isTimerActive = FALSE
  /\ showTimeUpPopup = FALSE
  /\ genReq = IdleReq
  /\ subReq = IdleReq
  /\ gen = GenIdle
  /\ sol = SolIdle
  /\ accuracyShown = accuracy(0, 0)
  /\ hist = HistIdle
  /\ board = BoardIdle
  /\ users = <<>>
  /\ login = LoginIdle
  /\ \E sid \in SubmitSessionIds, answer \in SubmitAnswers,
        d \in QuizDifficulties, t \in SubmitTimes,
        fb \in FeedbackCalls, dbOk \in BOOLEAN :
       sub = [phase |-> "called",
              body |-> [sessionId |-> sid, userAnswer |-> answer,
                        difficulty |-> d, timeUsed |-> t,
                        currentTotalScore |-> 0],
              fb |-> fb, dbOk |-> dbOk]

submitCall ==
  /\ sub.phase = "called"
  /\ LET r == PostSubmit(sub.body, sub.fb, sub.dbOk)
     IN /\ math_problem_submissions' =
             IF r.inserted THEN Append(math_problem_submissions, r.row)
                           ELSE math_problem_submissions
        /\ sub' = [phase |-> "returned", body |-> sub.body, fb |-> sub.fb,
                   dbOk |-> sub.dbOk, status |-> r.status,
                   isCorrect |-> r.isCorrect, feedback |-> r.feedback]
  /\ UNCHANGED <<apis, math_problem_sessions, page, tally, timer, selectors, genReq,
                 subReq, gen, sol, accuracyShown>>

NextSubmit == submitCall

SpecSubmit == InitSubmit /\ [][NextSubmit]_vars

(***************************************************************************)
(* POST /api/solution: validate, ask the AI for the steps, fall back.  A   *)
(* solution is the number of its steps and its finalAnswer; the text       *)
(* "Check your calculation" is a string that is no numeral.                *)
(***************************************************************************)
\* how the AI call ends: the SDK throws, the reply is no JSON, the parsed
\* object has no steps (missing, no array or empty), none of its steps is
\* well formed, or it has valid steps; finalAnswer is that of the parsed
\* object (Other: missing or falsy)
SolutionCall(outcome, validSteps, finalAnswer) ==
  [outcome |-> outcome, validSteps |-> validSteps, finalAnswer |-> finalAnswer]
SolutionCalls ==
  { SolutionCall(o, 0, Other) : o \in {"throw", "unparsable", "nosteps", "novalid"} }
    \cup { SolutionCall("steps", 2, fa) : fa \in {Num(14), Num(15), Other} }

\* body: [problem: a text or the empty string, answer: a tagged JSON value,
\* Other when the property is missing]
PostSolution(body, ai) ==
  LET Reply(status, steps, finalAnswer, fallback) ==
        [status |-> status, steps |-> steps, finalAnswer |-> finalAnswer,
         fallback |-> fallback]
  IN IF body.problem = EmptyString \/ body.answer = Other
       THEN Reply(400, 0, Other, FALSE)
       ELSE CASE ai.outcome = "throw" -> Reply(200, 3, Str(Word), FALSE)
              [] ai.outcome \in {"unparsable", "nosteps", "novalid"} ->
                   Reply(200, 4, body.answer, TRUE)
              [] OTHER ->
                   Reply(200, ai.validSteps,
                         IF ai.finalAnswer = Other \/ ai.finalAnswer = Num(0)
                           THEN body.answer ELSE ai.finalAnswer,
                         FALSE)

\* the request bodies: the text and answer of a fallback problem of each
\* type, and the same with the text or the answer missing
SolutionBodies ==
  LET problems == { generateFallbackProblem(t, "Beginner", rnd) :
                      t \in ProblemTypes, rnd \in QuizRnds }
  IN { [problem |-> q.problem_text, answer |-> Num(q.final_answer)] :
         q \in problems }
       \cup { [problem |-> EmptyString, answer |-> Num(q.final_answer)] :
                q \in problems }
       \cup { [problem |-> q.problem_text, answer |-> Other] : q \in problems }

InitSolution ==
  /\ math_problem_sessions = <<>>
  /\ math_problem_submissions = <<>>
  /\ problem = NoProblem
  /\ userAnswer = EmptyString
  /\ feedback = NoFeedbackText
  /\ isGenerating = FALSE
  /\ isSubmitting = FALSE
  /\ sessionId = NoSession
  /\ isCorrect = "null"
  /\ score = 0
  /\ totalProblems = 0
  /\ totalScore = 0
  /\ problemType = "mixed"
  /\ difficulty = "Beginner"
  /\ timeLeft = Null
  /\ isTimerActive = FALSE
  /\ showTimeUpPopup = FALSE
  /\ genReq = IdleReq
  /\ subReq = IdleReq
  /\ gen = GenIdle
  /\ sub = SubIdle
  /\ accuracyShown = accuracy(0, 0)
  /\ hist = HistIdle
  /\ board = BoardIdle
  /\ users = <<>>
  /\ login = LoginIdle
  /\ \E body \in SolutionBodies, d \in Difficulties, ai \in SolutionCalls :
       sol = [phase |-> "called", body |-> body, difficulty |-> d, ai |-> ai]

solutionCall ==
  /\ sol.phase = "called"
  /\ LET r == PostSolution(sol.body, sol.ai)
     IN sol' = [phase |-> "returned", body |-> sol.body,
                difficulty |-> sol.difficulty, ai |-> sol.ai,
                status |-> r.status, steps |-> r.steps,
                finalAnswer |-> r.finalAnswer, fallback |-> r.fallback]
  /\ UNCHANGED <<apis, store, page, tally, timer, selectors, genReq, subReq, gen, sub,
                 accuracyShown>>

NextSolution == solutionCall

SpecSolution == InitSolution /\ [][NextSolution]_vars

(***************************************************************************)
(* The tally section of the page on its own: outcomes are counted as       *)
(* submitAnswerInternal counts the evaluated ones and the timer effect the *)
(* expired ones, and the section is rendered again after each.             *)
(***************************************************************************)
countOutcome ==
  /\ totalProblems < MaxShownAttempts
  /\ \E correct \in BOOLEAN :
       LET t == accumulate(Tally, correct, difficulty)
       IN /\ totalProblems' = t.totalProblems
          /\ score' = t.score
          /\ totalScore' = t.totalScore
  /\ UNCHANGED <<apis, store, page, timer, selectors, genReq, subReq, gen, sub, sol>>
  /\ accuracyShown' = accuracy(score', totalProblems')

NextAccuracy == countOutcome

SpecAccuracy == Init /\ [][NextAccuracy]_vars

(***************************************************************************)
(* GET /api/problem-history on its own: one call, on a store filled by the *)
(* two POST routes.  created_at of a session row is the store's NOW() at   *)
(* the insert: it never decreases from one insert to the next and two      *)
(* inserts may get the same value.                                         *)
(***************************************************************************)
MaxHistorySessions == 3
MaxHistorySubmissions == 2
\* .limit(20)
HistoryLimit == 20
\* what the user answers in the history machine: 1 off, and the answer
HistoryAnswers == {14, 15}

\* the select without its .order(...): the session ids in any order
HistoryOrders_Unordered ==
  LET n == Len(math_problem_sessions)
  IN { o \in [1..n -> 1..n] : \A i, j \in 1..n : i # j => o[i] # o[j] }

\* the rows of .order('created_at', { ascending: false }): every order of
\* the session ids in which created_at never increases
HistoryOrders ==
  LET n == Len(math_problem_sessions)
  IN { o \in [1..n -> 1..n] :
         /\ \A i, j \in 1..n : i # j => o[i] # o[j]
         /\ \A i \in 1..n : i < n =>
              math_problem_sessions[o[i]].created_at
                >= math_problem_sessions[o[i + 1]].created_at }

\* the embedded math_problem_submissions array of each session comes in an
\* order the query does not fix: firstOf[sid] is its element [0], 0 when the
\* array is empty
HistoryEmbeddings ==
  { f \in [1..Len(math_problem_sessions) -> 0..Len(math_problem_submissions)] :
      \A sid \in DOMAIN f :
        IF SubmissionsOf(sid) = {} THEN f[sid] = 0
                                   ELSE f[sid] \in SubmissionsOf(sid) }

GetHistory(order, firstOf, dbOk) ==
  LET n == Len(math_problem_sessions)
      limited == [i \in 1..(IF n < HistoryLimit THEN n ELSE HistoryLimit) |->
                    order[i]]
      HasSubmissions(sid) == SubmissionsOf(sid) # {}
      Entry(sid) ==
        LET session == math_problem_sessions[sid]
            submission == math_problem_submissions[firstOf[sid]]
        IN [id |-> sid,
            problemText |-> session.problem_text,
            correctAnswer |-> session.correct_answer,
            difficulty |-> session.difficulty_level,
            createdAt |-> session.created_at,
            submission |-> firstOf[sid],
            userAnswer |-> submission.user_answer,
            isCorrect |-> submission.is_correct,
            feedback |-> submission.feedback_text,
            timeUsed |-> submission.time_used_seconds]
      kept == SelectSeq(limited, HasSubmissions)
  IN IF dbOk
       THEN [status |-> 200, entries |-> [i \in 1..Len(kept) |-> Entry(kept[i])]]
       ELSE [status |-> 500, entries |-> <<>>]

InitHistory ==
  /\ math_problem_sessions = <<>>
  /\ math_problem_submissions = <<>>
  /\ problem = NoProblem
  /\ userAnswer = EmptyString
  /\ feedback = NoFeedbackText
  /\ isGenerating = FALSE
  /\ isSubmitting = FALSE
  /\ sessionId = NoSession
  /\ isCorrect = "null"
  /\ score = 0
  /\ totalProblems = 0
  /\ totalScore = 0
  /\ problemType = "mixed"
  /\ difficulty = "Beginner"
  /\ timeLeft = Null
  /\ isTimerActive = FALSE
  /\ showTimeUpPopup = FALSE
  /\ genReq = IdleReq
  /\ subReq = IdleReq
  /\ gen = GenIdle
  /\ sub = SubIdle
  /\ sol = SolIdle
  /\ accuracyShown = accuracy(0, 0)
  /\ hist = [phase |-> "open", now |-> 1]
  /\ board = BoardIdle
  /\ users = <<>>
  /\ login = LoginIdle

\* a POST /api/math-problem that stores a session
historyGenerate ==
  /\ hist.phase = "open"
  /\ Len(math_problem_sessions) < MaxHistorySessions
  /\ \E d \in QuizDifficulties, rnd \in QuizRnds, later \in {0, 1} :
       LET r == PostMathProblem([problemType |-> "addition", difficulty |-> d],
                                AICall(FALSE, "ok", "json", "string", Num(15), "string"),
                                rnd, TRUE, Len(math_problem_sessions) + 1)
           now == hist.now + later
       IN /\ r.inserted
          /\ math_problem_sessions' =
               Append(math_problem_sessions, r.row @@ [created_at |-> now])
          /\ hist' = [phase |-> "open", now |-> now]
  /\ UNCHANGED <<math_problem_submissions, page, tally, timer, selectors,
                 genReq, subReq, gen, sub, sol, accuracyShown, board,
                 users, login>>

\* a POST /api/math-problem/submit that stores a submission
historySubmit ==
  /\ hist.phase = "open"
  /\ Len(math_problem_submissions) < MaxHistorySubmissions
  /\ \E sid \in 1..Len(math_problem_sessions), answer \in HistoryAnswers :
       LET r == PostSubmit([sessionId |-> sid, userAnswer |-> answer],
                           FeedbackCall(FALSE, "ok", "text"), TRUE)
       IN /\ r.inserted
          /\ math_problem_submissions' = Append(math_problem_submissions, r.row)
          /\ hist' = [phase |-> "open", now |-> hist.now]
  /\ UNCHANGED <<math_problem_sessions, page, tally, timer, selectors,
                 genReq, subReq, gen, sub, sol, accuracyShown, board,
                 users, login>>

historyCall ==
  /\ hist.phase = "open"
  /\ \E order \in HistoryOrders, firstOf \in HistoryEmbeddings, dbOk \in BOOLEAN :
       LET r == GetHistory(order, firstOf, dbOk)
       IN hist' = [phase |-> "returned", now |-> hist.now,
                   status |-> r.status, entries |-> r.entries]
  /\ UNCHANGED <<store, page, tally, timer, selectors, genReq, subReq, gen,
                 sub, sol, accuracyShown, board,
                 users, login>>

NextHistory ==
  \/ historyGenerate
  \/ historySubmit
  \/ historyCall

SpecHistory == InitHistory /\ [][NextHistory]_vars

(***************************************************************************)
(* GET /api/problem-history on a store with a backlog: more sessions than  *)
(* the query's limit.  Every insert of this machine happens at a later     *)
(* instant than the one before, so created_at is the row number, and each  *)
(* session gets at most one submission.                                    *)
(***************************************************************************)
MaxBacklogSessions == 22
MaxBacklogSubmissions == 1

\* the one order of .order('created_at', { ascending: false }) when no two
\* rows share created_at: the newest row first
newestFirst ==
  LET n == Len(math_problem_sessions)
  IN [i \in 1..n |-> n + 1 - i]

\* element [0] of the embedded array of each session, 0 when it is empty
firstSubmissionOf ==
  [sid \in 1..Len(math_problem_sessions) |->
     IF SubmissionsOf(sid) = {} THEN 0
                                ELSE CHOOSE i \in SubmissionsOf(sid) : TRUE]

\* a POST /api/math-problem that stores a session
backlogGenerate ==
  /\ hist.phase = "open"
  /\ Len(math_problem_sessions) < MaxBacklogSessions
  /\ \E rnd \in QuizRnds :
       LET r == PostMathProblem([problemType |-> "addition", difficulty |-> "Beginner"],
                                AICall(FALSE, "ok", "json", "string", Num(15), "string"),
                                rnd, TRUE, Len(math_problem_sessions) + 1)
       IN /\ r.inserted
          /\ math_problem_sessions' =
               Append(math_problem_sessions,
                      r.row @@ [created_at |-> Len(math_problem_sessions) + 1])
          /\ hist' = [phase |-> "open", now |-> Len(math_problem_sessions) + 1]
  /\ UNCHANGED <<math_problem_submissions, page, tally, timer, selectors,
                 genReq, subReq, gen, sub, sol, accuracyShown, board,
                 users, login>>

\* a POST /api/math-problem/submit that stores a submission
backlogSubmit ==
  /\ hist.phase = "open"
  /\ Len(math_problem_submissions) < MaxBacklogSubmissions
  /\ \E sid \in 1..Len(math_problem_sessions), answer \in HistoryAnswers :
       LET r == PostSubmit([sessionId |-> sid, userAnswer |-> answer],
                           FeedbackCall(FALSE, "ok", "text"), TRUE)
       IN /\ r.inserted
          /\ math_problem_submissions' = Append(math_problem_submissions, r.row)
          /\ hist' = [phase |-> "open", now |-> hist.now]
  /\ UNCHANGED <<math_problem_sessions, page, tally, timer, selectors,
                 genReq, subReq, gen, sub, sol, accuracyShown, board,
                 users, login>>

backlogCall ==
  /\ hist.phase = "open"
  /\ \E dbOk \in BOOLEAN :
       LET r == GetHistory(newestFirst, firstSubmissionOf, dbOk)
       IN hist' = [phase |-> "returned", now |-> hist.now,
                   status |-> r.status, entries |-> r.entries]
  /\ UNCHANGED <<store, page, tally, timer, selectors, genReq, subReq, gen,
                 sub, sol, accuracyShown, board,
                 users, login>>

NextBacklog ==
  \/ backlogGenerate
  \/ backlogSubmit
  \/ backlogCall

SpecBacklog == InitHistory /\ [][NextBacklog]_vars

(***************************************************************************)
(* GET /api/high-scores on its own: one call, for stores whose submission  *)
(* rows carry every kind of total_score the column admits (NUMERIC DEFAULT *)
(* 0, nullable).  Scores are in tenths, as totalScore is.                  *)
(***************************************************************************)
\* .limit(50) and .slice(0, 3)
ScoresFetched == 50
ScoresShown == 3
\* how many rows of a store have no total_score
BoardNulls == {0, 47, 50}
\* how many rows of a store have each of the other scores, at most
MaxPerScore == 2
BoardScores == <<0, 10, 15, 25>>

\* a submission row of session 1 with the given total_score
ScoredRow(total) ==
  [session_id |-> 1, user_answer |-> 15, is_correct |-> TRUE,
   feedback_text |-> Fb("correct", 15), difficulty_level |-> "Beginner",
   time_used_seconds |-> 0, total_score |-> total]

\* the select without its .order(...): the rows in the order of the table
orderByTotalScoreDesc_TableOrder(rows) == rows

\* .order('total_score', { ascending: false }): ORDER BY total_score DESC,
\* which puts the rows without total_score first; rows of equal score stay
\* in the order of the table
orderByTotalScoreDesc(rows) ==
  LET n == Len(rows)
      Before(i, j) ==
        LET x == rows[i].total_score
            y == rows[j].total_score
        IN IF x = y THEN i < j
           ELSE IF x = Null THEN TRUE
           ELSE IF y = Null THEN FALSE
           ELSE x > y
      place == [i \in 1..n |-> 1 + Cardinality({ j \in 1..n : Before(j, i) })]
  IN [k \in 1..n |-> rows[CHOOSE i \in 1..n : place[i] = k]]

GetHighScores(dbOk) ==
  LET ordered == orderByTotalScoreDesc(math_problem_submissions)
      highScores == SubSeq(ordered, 1, Min(Len(ordered), ScoresFetched))
      \* null > 0 is false
      Positive(row) == row.total_score # Null /\ row.total_score > 0
      filtered == SelectSeq(highScores, Positive)
      sliced == SubSeq(filtered, 1, Min(Len(filtered), ScoresShown))
  IN IF dbOk
       THEN [status |-> 200,
             scores |-> [i \in 1..Len(sliced) |->
                           [rank |-> i,
                            score |-> sliced[i].total_score,
                            difficulty |-> sliced[i].difficulty_level,
                            isCorrect |-> sliced[i].is_correct]]]
       ELSE [status |-> 500, scores |-> <<>>]

\* the rows of a store, from the number of rows of each score
BoardRows(count, nulls) ==
  LET upTo == [k \in 0..Len(BoardScores) |->
                 IF k = 0 THEN 0 ELSE count[1] + (IF k > 1 THEN count[2] ELSE 0)
                                      + (IF k > 2 THEN count[3] ELSE 0)
                                      + (IF k > 3 THEN count[4] ELSE 0)]
      total == upTo[Len(BoardScores)] + nulls
  IN [i \in 1..total |->
        IF i > upTo[Len(BoardScores)] THEN ScoredRow(Null)
        ELSE ScoredRow(BoardScores[CHOOSE k \in 1..Len(BoardScores) :
                                     upTo[k - 1] < i /\ i <= upTo[k]])]

InitBoard ==
  /\ \E d \in QuizDifficulties, rnd \in QuizRnds :
       math_problem_sessions =
         <<PostMathProblem([problemType |-> "addition", difficulty |-> d],
                           AICall(FALSE, "ok", "json", "string", Num(15), "string"),
                           rnd, TRUE, 1).row>>
  /\ \E count \in [1..Len(BoardScores) -> 0..MaxPerScore], nulls \in BoardNulls :
       math_problem_submissions = BoardRows(count, nulls)
  /\ problem = NoProblem
  /\ userAnswer = EmptyString
  /\ feedback = NoFeedbackText
  /\ isGenerating = FALSE
  /\ isSubmitting = FALSE
  /\ sessionId = NoSession
  /\ isCorrect = "null"
  /\ score = 0
  /\ totalProblems = 0
  /\ totalScore = 0
  /\ problemType = "mixed"
  /\ difficulty = "Beginner"
  /\ timeLeft = Null
  /\ isTimerActive = FALSE
  /\ showTimeUpPopup = FALSE
  /\ genReq = IdleReq
  /\ subReq = IdleReq
  /\ gen = GenIdle
  /\ sub = SubIdle
  /\ sol = SolIdle
  /\ accuracyShown = accuracy(0, 0)
  /\ hist = HistIdle
  /\ \E dbOk \in BOOLEAN : board = [phase |-> "called", dbOk |-> dbOk]
  /\ users = <<>>
  /\ login = LoginIdle

highScoresCall ==
  /\ board.phase = "called"
  /\ LET r == GetHighScores(board.dbOk)
     IN board' = [phase |-> "returned", dbOk |-> board.dbOk,
                  status |-> r.status, scores |-> r.scores]
  /\ UNCHANGED <<store, page, tally, timer, selectors, genReq, subReq, gen,
                 sub, sol, accuracyShown, hist, users, login>>

NextBoard == highScoresCall

SpecBoard == InitBoard /\ [][NextBoard]_vars

(***************************************************************************)
(* POST /api/auth/login: find the user of a name or create it.  A name is  *)
(* a sequence of characters.  The handler awaits the store twice, for the  *)
(* select and for the insert: each is a step, and calls interleave between *)
(* them.  The users table of database.sql has a primary key on id and no   *)
(* constraint on name; a row's id is its index.                            *)
(***************************************************************************)
MaxUsers == 3
\* the body has no name, or one that is no string
NoName == <<"?">>
LoginNames == { NoName, <<>>, <<"a">>, <<" ", "a", " ">>, <<"a", "b">>,
                <<"A", "b">>, <<" ", "a", "b">> }

\* String.prototype.trim
trim(name) ==
  LET inner == { i \in 1..Len(name) : name[i] # " " }
  IN IF inner = {} THEN <<>>
     ELSE LET first == CHOOSE i \in inner : \A j \in inner : i <= j
              last == CHOOSE i \in inner : \A j \in inner : j <= i
          IN SubSeq(name, first, last)

\* !name || typeof name !== 'string' || name.trim().length < 2
validName(name) == name # NoName /\ name # <<>> /\ Len(trim(name)) >= 2

\* .eq('name', trimmedName)
usersNamed(name) == { i \in 1..Len(users) : users[i].name = name }

\* the call is received: the name is checked, then the select is awaited.
\* .single() gives the row when exactly one matches, and the error PGRST116
\* when none or several do
loginSearch ==
  \E p \in LoginCallers, name \in LoginNames, dbOk \in BOOLEAN :
    /\ login.calls[p].pc = "idle"
    /\ LET matches == usersNamed(trim(name))
           Call(pc, status, id) ==
             [pc |-> pc, name |-> name, status |-> status, id |-> id]
           call ==
             IF ~validName(name) THEN Call("done", 400, 0)
             ELSE IF ~dbOk THEN Call("done", 500, 0)
             ELSE IF Cardinality(matches) = 1
               THEN Call("done", 200, CHOOSE i \in matches : TRUE)
             ELSE Call("inserting", 0, 0)
       IN login' = [calls |-> [login.calls EXCEPT ![p] = call],
                    returned |-> IF call.status = 200
                                   THEN login.returned \cup {<<trim(name), call.id>>}
                                   ELSE login.returned]
    /\ UNCHANGED <<store, page, tally, timer, selectors, genReq, subReq, gen,
                   sub, sol, accuracyShown, hist, board, users>>

\* the insert is awaited and the new row returned
loginInsert ==
  \E p \in LoginCallers, dbOk \in BOOLEAN :
    /\ login.calls[p].pc = "inserting"
    /\ dbOk => Len(users) < MaxUsers
    /\ LET name == trim(login.calls[p].name)
           id == Len(users) + 1
       IN /\ users' = IF dbOk THEN Append(users, [name |-> name]) ELSE users
          /\ login' = [calls |-> [login.calls EXCEPT ![p] =
                                    [pc |-> "done", name |-> login.calls[p].name,
                                     status |-> IF dbOk THEN 200 ELSE 500,
                                     id |-> IF dbOk THEN id ELSE 0]],
                       returned |-> IF dbOk
                                      THEN login.returned \cup {<<name, id>>}
                                      ELSE login.returned]
    /\ UNCHANGED <<store, page, tally, timer, selectors, genReq, subReq, gen,
                   sub, sol, accuracyShown, hist, board>>

\* the caller has its reply and may call again
loginReturn ==
  \E p \in LoginCallers :
    /\ login.calls[p].pc = "done"
    /\ login' = [calls |-> [login.calls EXCEPT ![p] = [pc |-> "idle"]],
                 returned |-> login.returned]
    /\ UNCHANGED <<store, page, tally, timer, selectors, genReq, subReq, gen,
                   sub, sol, accuracyShown, hist, board, users>>

NextLogin ==
  \/ loginSearch
  \/ loginInsert
  \/ loginReturn

SpecLogin == Init /\ [][NextLogin]_vars

(***************************************************************************)
(* The quiz machine with its countdown second by second: every run of the  *)
(* interval callback is a step.  The problem type stays as it is.          *)
(***************************************************************************)
\* mutant: a run of the callback takes 2 off
timerTickOnce_Two == timerTicks(2)

\* one run of the interval callback of the timer effect
timerTickOnce == timerTicks(1)

NextTimer ==
  \/ setDifficulty
  \/ setUserAnswer
  \/ resetScore
  \/ generateProblem
  \/ handleTryAgain
  \/ closeTimeUpPopup
  \/ generateProblemReceive
  \/ submitAnswerSend
  \/ submitAnswerReceive
  \/ timerTickOnce
  \/ postMathProblem
  \/ postSubmit

SpecTimer == Init /\ [][NextTimer]_vars

(***************************************************************************)
(* The quiz machine when every request is answered and every answer is     *)
(* taken up: the routes return whatever their AI and store calls do, and   *)
(* the continuation of a fetch runs once the response is there.  The       *)
(* problem type stays as it is.                                            *)
(***************************************************************************)
NextLive ==
  \/ setDifficulty
  \/ setUserAnswer
  \/ resetScore
  \/ generateProblem
  \/ handleTryAgain
  \/ closeTimeUpPopup
  \/ generateProblemReceive
  \/ submitAnswerSend
  \/ submitAnswerReceive
  \/ timerTick
  \/ postMathProblem
  \/ postSubmit

SpecLive ==
  /\ Init
  /\ [][NextLive]_vars
  /\ WF_vars(postMathProblem)
  /\ WF_vars(generateProblemReceive)
  /\ WF_vars(postSubmit)
  /\ WF_vars(submitAnswerReceive)

(***************************************************************************)
(* The quiz machine under fair ticking: while the countdown is active the  *)
(* browser runs the interval callback every second.  Nothing is assumed of *)
(* the user or of the routes.                                              *)
(***************************************************************************)
SpecTicking ==
  /\ Init
  /\ [][NextLive]_vars
  /\ WF_vars(timerTick)


(***************************************************************************)
(* Claims.                                                                 *)
(***************************************************************************)
SessionIds == 1..Len(math_problem_sessions)
SubmissionIds == 1..Len(math_problem_submissions)

\* C1: the store holds at most one Submission row for each session id.
C1_AtMostOneSubmissionPerSession ==
  \A sid \in SessionIds : Cardinality(SubmissionsOf(sid)) <= 1

\* C2: a SubmitAnswer request for a session that already has a Submission is
\* rejected (never answered 200).
C2_SecondSubmitRejected ==
  [][(/\ subReq.phase = "sent"
      /\ subReq'.phase = "replied"
      /\ SubmissionsOf(subReq.sessionId) # {})
     => subReq'.status # 200]_vars

\* C3: once the countdown of the current session has expired, no submit is
\* made for that session: of expiry and submit only one acts.
C3_ExpiryOrSubmitNotBoth ==
  (timeLeft = 0 /\ sessionId # NoSession /\ subReq.phase # "idle")
    => subReq.sessionId # sessionId

\* C4: when the countdown of the current session has reached zero, the store
\* holds (or a request in flight is about to write) exactly one Submission of
\* the session, with isCorrect false, score delta 0 and timeUsedSeconds equal
\* to the time limit of the session's difficulty.
C4_ExpiryPersistsOneSubmission ==
  (timeLeft = 0 /\ sessionId # NoSession /\ subReq.phase = "idle")
    => /\ Cardinality(SubmissionsOf(sessionId)) = 1
       /\ \A i \in SubmissionsOf(sessionId) :
            LET r == math_problem_submissions[i]
            IN /\ ~r.is_correct
               /\ r.total_score = 0
               /\ r.time_used_seconds =
                    timeLimit(math_problem_sessions[sessionId].difficulty_level)

\* C5: a Submission is recorded and answered as correct exactly when the
\* submitted number equals the correct answer stored with its session.
C5_IsCorrectIffEqualsStored ==
  /\ \A i \in SubmissionIds :
       LET r == math_problem_submissions[i]
       IN r.is_correct
            <=> (r.user_answer = math_problem_sessions[r.session_id].correct_answer)
  /\ (subReq.phase = "replied" /\ subReq.status = 200)
       => (subReq.isCorrect
             <=> (subReq.userAnswer
                    = math_problem_sessions[subReq.sessionId].correct_answer))

\* C5 witness: the store holds a correct Submission and an incorrect one whose
\* answer is 1 away from the stored answer.
C5_Witness ==
  /\ \E i \in SubmissionIds : math_problem_submissions[i].is_correct
  /\ \E i \in SubmissionIds :
       LET r == math_problem_submissions[i]
           c == math_problem_sessions[r.session_id].correct_answer
       IN ~r.is_correct /\ (r.user_answer = c + 1 \/ r.user_answer = c - 1)

\* C6: neither the response of a generate request nor the problem the page
\* holds carries the correct answer.
C6_ClientNeverHoldsAnswer ==
  /\ (genReq.phase = "replied" /\ genReq.ok)
       => "final_answer" \notin DOMAIN genReq.problem
  /\ problem.present => "final_answer" \notin DOMAIN problem

\* C8: the score delta of an evaluated submission is 0 when the answer is
\* incorrect and otherwise the multiplier of the difficulty of its session.
C8_DeltaIsMultiplierOfSessionDifficulty ==
  [][(subReq.phase = "replied" /\ subReq'.phase = "idle" /\ subReq.status = 200)
     => totalScore' - totalScore =
          IF subReq.isCorrect
            THEN multiplier(
                   math_problem_sessions[subReq.sessionId].difficulty_level)
            ELSE 0]_vars

\* the tally after a sequence of outcomes at one difficulty, from a tally t
RECURSIVE accumulateAll(_, _, _)
accumulateAll(t, outcomes, d) ==
  IF outcomes = <<>>
    THEN t
    ELSE accumulateAll(accumulate(t, Head(outcomes), d), Tail(outcomes), d)

\* C9: an evaluated submission adds 1 to the attempted count, and adds 1 to
\* the correct count and the score delta to the total score only when it is
\* correct; correct, incorrect, correct at Beginner give 2 of 3 and 2.0 points.
C9_AccumulateStep ==
  [][(subReq.phase = "replied" /\ subReq'.phase = "idle" /\ subReq.status = 200)
     => /\ totalProblems' = totalProblems + 1
        /\ subReq.isCorrect
             => /\ score' = score + 1
                /\ totalScore' = totalScore + multiplier(subReq.difficulty)
        /\ ~subReq.isCorrect
             => /\ score' = score
                /\ totalScore' = totalScore
        /\ accumulateAll([score |-> 0, totalProblems |-> 0, totalScore |-> 0],
                         <<TRUE, FALSE, TRUE>>, "Beginner")
             = [score |-> 2, totalProblems |-> 3, totalScore |-> 20]]_vars

\* C9 witness: the tally after one correct and one incorrect evaluated
\* submission at Beginner.
C9_Witness ==
  /\ score = 1 /\ totalProblems = 2 /\ totalScore = 10
  /\ Len(math_problem_submissions) = 2
  /\ subReq.phase = "idle"

\* the AI attempt fails: no key, fetch throws, a non-OK status, a reply
\* without text, without a JSON object in it, with JSON that does not parse,
\* or with a problem_text, final_answer or hint missing or of the wrong type
AIAttemptFails(ai) ==
  \/ ~ai.key
  \/ ai.http \in {"throw", "notok"}
  \/ ai.text \in {"none", "nojson", "badjson"}
  \/ ai.pt # "string"
  \/ ai.fa.type = "other"
  \/ ai.hint # "string"

\* C7: whenever the AI attempt fails, the generated problem is the one of the
\* fallback generator, with a text of the requested operation's template, a
\* number as its answer and a hint, and the request fails only when the store
\* refuses the insert.
C7_FallbackOnEveryAIFailure ==
  (gen.phase = "returned" /\ AIAttemptFails(gen.ai))
    => /\ gen.generated.problem_text.template \in ProblemTypes
       /\ gen.generated.problem_text.template
            = (IF gen.problemType \in ProblemTypes THEN gen.problemType ELSE "mixed")
       /\ Len(gen.generated.problem_text.nums) = 2
       /\ gen.generated.final_answer \in Nat
       /\ gen.generated.hint = gen.generated.problem_text.template
       /\ gen.ok = gen.dbOk
       /\ gen.ok => gen.response.problem_text = gen.generated.problem_text

\* C7 witness: a reply that parses but whose hint is no string was answered
\* with a stored fallback problem.
C7_Witness ==
  /\ gen.phase = "returned"
  /\ gen.ai.key /\ gen.ai.http = "ok" /\ gen.ai.text = "json"
  /\ gen.ai.pt = "string" /\ gen.ai.fa.type = "number" /\ gen.ai.hint # "string"
  /\ gen.ok
  /\ gen.generated.problem_text.template = "division"

\* C10: the accuracy shown is 100 * correct / attempted rounded to the nearest
\* integer (a half rounded up), 0 when nothing was attempted, and always an
\* integer from 0 to 100.
C10_AccuracyIsRoundedPercentage ==
  /\ accuracyShown \in 0..100
  /\ totalProblems = 0 => accuracyShown = 0
  /\ totalProblems > 0
       => /\ 2 * totalProblems * accuracyShown - totalProblems <= 200 * score
          /\ 200 * score < 2 * totalProblems * accuracyShown + totalProblems

\* the call was served by the fallback generator
FallbackServed == gen.phase = "returned" /\ ~AIReplyAccepted(gen.ai)

\* the stated dividend is a multiple of the stated divisor, the answer times
DivisionExact(p) ==
  LET n == p.problem_text.nums
  IN /\ n[2] > 0
     /\ n[1] % n[2] = 0
     /\ p.final_answer * n[2] = n[1]

\* C11: a division problem of the fallback states a dividend that is a
\* multiple of its divisor, and its answer is the quotient without remainder:
\* for the draws of the call and for every pair of draws at its difficulty.
C11_FallbackDivisionExact ==
  (FallbackServed /\ gen.problemType = "division")
    => /\ DivisionExact(gen.generated)
       /\ \A dividend \in 0..49, divisor \in 0..7 :
            DivisionExact(generateFallbackProblem(
              "division", gen.difficulty,
              [gen.rnd EXCEPT !.dividend = dividend, !.divisor = divisor]))

\* C11 witness: the draws 59 and 9, stated as 54 divided by 9 with answer 6.
C11_Witness ==
  /\ FallbackServed
  /\ gen.problemType = "division"
  /\ gen.rnd.dividend = 49 /\ gen.rnd.divisor = 7
  /\ gen.generated.problem_text.nums = <<54, 9>>
  /\ gen.generated.final_answer = 6

\* C13: every number stated in a problem of the fallback is within the
\* magnitude bound the AI prompt sets for the difficulty.
C13_FallbackWithinMagnitude ==
  FallbackServed
    => \A i \in 1..Len(gen.generated.problem_text.nums) :
         gen.generated.problem_text.nums[i] <= magnitude(gen.difficulty)

\* C14: the answer of a problem of the fallback is none of the numbers its
\* text states.
C14_AnswerNotInText ==
  FallbackServed
    => \A i \in 1..Len(gen.generated.problem_text.nums) :
         gen.generated.problem_text.nums[i] # gen.generated.final_answer

\* C12: a session of a fallback addition problem at Beginner stores a + b for
\* operands a in 1..50 and b in 1..20; a submission of exactly a + b is
\* correct and scores 1.0, a submission of another number is incorrect and
\* scores 0.
C12_AdditionBeginnerRound ==
  [][(/\ subReq.phase = "replied"
      /\ subReq'.phase = "idle"
      /\ subReq.status = 200
      /\ LET s == math_problem_sessions[subReq.sessionId]
         IN /\ s.problem_text.template = "addition"
            /\ s.difficulty_level = "Beginner")
     => LET s == math_problem_sessions[subReq.sessionId]
            n == s.problem_text.nums
        IN /\ n[1] \in 1..50
           /\ n[2] \in 1..20
           /\ s.correct_answer = n[1] + n[2]
           /\ subReq.isCorrect <=> (subReq.userAnswer = n[1] + n[2])
           /\ totalScore' - totalScore =
                IF subReq.userAnswer = n[1] + n[2] THEN 10 ELSE 0]_vars

\* the request of the submit call passed validation and named a stored session
SubmitEvaluated ==
  /\ sub.phase = "returned"
  /\ sub.body.sessionId \in 1..Len(math_problem_sessions)
  /\ sub.body.userAnswer # NaN

\* C15: whatever the AI feedback call does, a submit that the store accepts
\* is answered with a feedback text: the AI's when it gave one, otherwise the
\* congratulatory line when correct and the line stating the correct answer
\* when incorrect.
C15_FeedbackOnEveryAIOutcome ==
  (SubmitEvaluated /\ sub.dbOk)
    => LET correctAnswer == math_problem_sessions[sub.body.sessionId].correct_answer
           fallback == IF sub.body.userAnswer = correctAnswer
                         THEN Fb("well_done", 0)
                         ELSE Fb("nice_try", correctAnswer)
           replied == sub.fb.key /\ sub.fb.http = "ok"
       IN /\ sub.status = 200
          /\ (replied /\ sub.fb.text = "text") => sub.feedback = Fb("ai", 0)
          /\ (replied /\ sub.fb.text = "blank")
               => sub.feedback \in {Fb("empty", 0), fallback}
          /\ (~replied \/ sub.fb.text = "none") => sub.feedback = fallback

\* C17: a submit without session id or without a numeric answer is answered
\* 400, one for a session the store does not hold is answered 404, and
\* neither writes a Submission.
C17_InvalidSubmitRejected ==
  sub.phase = "returned"
    => /\ (sub.body.sessionId = NoSession \/ sub.body.userAnswer = NaN)
            => sub.status = 400 /\ math_problem_submissions = <<>>
       /\ (/\ sub.body.sessionId # NoSession
           /\ sub.body.userAnswer # NaN
           /\ sub.body.sessionId \notin 1..Len(math_problem_sessions))
            => sub.status = 404 /\ math_problem_submissions = <<>>

\* C17 witness: a numeric answer for an unknown session, answered 404 by a
\* working store.
C17_Witness ==
  /\ sub.phase = "returned"
  /\ sub.body.sessionId = 2
  /\ sub.body.userAnswer = 15
  /\ sub.dbOk
  /\ sub.status = 404
  /\ math_problem_submissions = <<>>

\* C19: the row of a persisted Submission records the difficulty of its
\* session, the time used that came with the submit and the score delta.
C19_SubmissionRecordsRound ==
  (sub.phase = "returned" /\ sub.status = 200)
    => LET r == math_problem_submissions[Len(math_problem_submissions)]
           s == math_problem_sessions[r.session_id]
       IN /\ r.session_id = sub.body.sessionId
          /\ r.user_answer = sub.body.userAnswer
          /\ r.is_correct = sub.isCorrect
          /\ r.feedback_text = sub.feedback
          /\ r.difficulty_level = s.difficulty_level
          /\ r.time_used_seconds = sub.body.timeUsed
          /\ r.total_score = IF r.is_correct THEN multiplier(s.difficulty_level)
                                             ELSE 0

\* the AI attempt of a solution request fails: the SDK throws, the reply does
\* not parse, it has no steps, or no step of it is well formed
SolutionAIFails == sol.ai.outcome \in {"throw", "unparsable", "nosteps", "novalid"}

\* C16: when the AI attempt fails, a valid solution request is answered with
\* at least one step and with the correct answer it was given as the final
\* answer.
C16_SolutionFallbackEndsInAnswer ==
  (/\ sol.phase = "returned"
   /\ sol.body.problem # EmptyString
   /\ sol.body.answer # Other
   /\ SolutionAIFails)
    => /\ sol.status = 200
       /\ sol.steps > 0
       /\ sol.finalAnswer = sol.body.answer

\* C18: when a submit is answered with the failure of the store write, the
\* page reports the error and changes neither the tally nor the store, and
\* the countdown of a session that is still without Submission and not
\* expired is running again.
C18_FailedWriteLeavesSessionActive ==
  [][(subReq.phase = "replied" /\ subReq'.phase = "idle" /\ subReq.status = 500)
     => /\ feedback' = Fb("error_submitting", 0)
        /\ UNCHANGED tally
        /\ UNCHANGED store
        /\ (/\ sessionId = subReq.sessionId
            /\ SubmissionsOf(sessionId) = {}
            /\ timeLeft # Null
            /\ timeLeft > 0)
             => isTimerActive']_vars

\* C20: while the page holds a problem, the solution request is on offer only
\* if an answer was submitted for that problem: the store holds a Submission
\* of its session, or a submit of it has just failed.
C20_SolutionOnlyAfterSubmit ==
  (problem.present /\ solutionSectionShown)
    => \/ SubmissionsOf(sessionId) # {}
       \/ feedback = Fb("error_submitting", 0)

\* C21: every entry GetHistory returns is a stored session with at least one
\* Submission; the entries come newest first by the session's creation time;
\* each carries its session's problem text, correct answer and difficulty and
\* the data of a Submission of that session; and no session is listed twice.
C21_HistoryListsSubmittedSessions ==
  (hist.phase = "returned" /\ hist.status = 200) =>
    LET entries == hist.entries
    IN /\ \A i \in 1..Len(entries) :
            LET e == entries[i]
            IN /\ e.id \in 1..Len(math_problem_sessions)
               /\ SubmissionsOf(e.id) # {}
               /\ e.problemText = math_problem_sessions[e.id].problem_text
               /\ e.correctAnswer = math_problem_sessions[e.id].correct_answer
               /\ e.difficulty = math_problem_sessions[e.id].difficulty_level
               /\ e.submission \in SubmissionsOf(e.id)
               /\ e.userAnswer = math_problem_submissions[e.submission].user_answer
               /\ e.isCorrect = math_problem_submissions[e.submission].is_correct
               /\ e.feedback = math_problem_submissions[e.submission].feedback_text
               /\ e.timeUsed = math_problem_submissions[e.submission].time_used_seconds
       /\ \A i, j \in 1..Len(entries) :
            i < j => /\ entries[i].createdAt >= entries[j].createdAt
                     /\ entries[i].id # entries[j].id

\* two submitted sessions of different creation times around one without
\* Submission: the history lists the two, the newer first
C21_Witness ==
  /\ hist.phase = "returned"
  /\ hist.status = 200
  /\ Len(math_problem_sessions) = 3
  /\ SubmissionsOf(2) = {}
  /\ Len(hist.entries) = 2
  /\ hist.entries[1].id = 3
  /\ hist.entries[2].id = 1
  /\ hist.entries[1].createdAt > hist.entries[2].createdAt

C23_OneUserPerName ==
  /\ \A p \in LoginCallers :
       (login.calls[p].pc # "idle" /\ ~validName(login.calls[p].name))
         => login.calls[p].pc = "done" /\ login.calls[p].status = 400
  /\ \A i \in 1..Len(users) : Len(users[i].name) >= 2
  /\ \A i, j \in 1..Len(users) : users[i].name = users[j].name => i = j
  /\ \A x, y \in login.returned : x[1] = y[1] => x[2] = y[2]

\* C24: the server evaluates a submit of the page's current session only
\* while that session's countdown has not reached zero, also after the
\* time-up popup was closed.
C24_NoEvaluationAfterTimeUp ==
  [][(/\ subReq.phase = "sent"
      /\ subReq'.phase = "replied"
      /\ subReq'.status = 200
      /\ subReq.sessionId = sessionId
      /\ ~showTimeUpPopup)
     => timeLeft # 0]_vars

\* C25: the server answers a generate request with a problem exactly when it
\* has stored a new session row, of the requested difficulty; when the page
\* receives such an answer its one countdown starts for that session at the
\* time limit of the requested difficulty (Beginner 120, Intermediate 90,
\* Advanced 60, Expert 45); when it receives a failure no countdown runs.
C25_CountdownStartsWithSession ==
  [][/\ (genReq.phase = "sent" /\ genReq'.phase = "replied") =>
          IF genReq'.ok
            THEN /\ Len(math_problem_sessions') = Len(math_problem_sessions) + 1
                 /\ genReq'.sessionId = Len(math_problem_sessions')
                 /\ math_problem_sessions'[genReq'.sessionId].difficulty_level
                      = genReq.difficulty
            ELSE UNCHANGED math_problem_sessions
     /\ (genReq.phase = "replied" /\ genReq'.phase = "idle") =>
          IF genReq.ok
            THEN /\ sessionId' = genReq.sessionId
                 /\ isTimerActive'
                 /\ timeLeft' = CASE genReq.difficulty = "Beginner" -> 120
                                  [] genReq.difficulty = "Intermediate" -> 90
                                  [] genReq.difficulty = "Advanced" -> 60
                                  [] genReq.difficulty = "Expert" -> 45
            ELSE /\ ~isTimerActive'
                 /\ timeLeft' = Null
                 /\ UNCHANGED sessionId]_vars

\* an Expert problem was requested while the selector then moved to Beginner:
\* the countdown of the new Expert session has just started at 45
C25_Witness ==
  /\ sessionId # NoSession
  /\ math_problem_sessions[sessionId].difficulty_level = "Expert"
  /\ difficulty = "Beginner"
  /\ genReq.phase = "idle"
  /\ isTimerActive
  /\ timeLeft = 45

\* C26: a generate request made while the current session is Active (its
\* countdown running above zero) stops that countdown for good, changes
\* neither the store nor the tally, and leaves the page unable to submit an
\* answer for the abandoned session, so that the session keeps zero
\* Submissions.
C26_GenerateAbandonsActiveSession ==
  [][(/\ genReq.phase = "idle"
      /\ genReq'.phase = "sent"
      /\ sessionId # NoSession
      /\ isTimerActive
      /\ timeLeft # Null
      /\ timeLeft > 0)
     => /\ ~isTimerActive'
        /\ timeLeft' = Null
        /\ ~showTimeUpPopup'
        /\ UNCHANGED store
        /\ UNCHANGED tally
        /\ SubmissionsOf(sessionId) = {}
        /\ ~(submitOffered' /\ sessionId' = sessionId)]_vars

\* C27: while a problem is Active (its countdown running, so that nothing was
\* submitted for it yet) the page displays no feedback and no correctness:
\* whatever a request of the previous problem brings back is not shown with
\* the new problem.
C27_NoStaleFeedbackOnNewProblem ==
  (isTimerActive /\ timeLeft # Null /\ timeLeft > 0 /\ genReq.phase = "idle")
    => /\ feedback = NoFeedbackText
       /\ isCorrect = "null"

\* C28: the timeUsed of every submit request is between 0 and the time limit
\* of the difficulty of the session it is about.
C28_TimeUsedWithinLimit ==
  (subReq.phase # "idle" /\ subReq.sessionId \in 1..Len(math_problem_sessions))
    => /\ subReq.timeUsed >= 0
       /\ subReq.timeUsed
            <= timeLimit(math_problem_sessions[subReq.sessionId].difficulty_level)

\* C29: every tick of the countdown takes exactly 1 off timeLeft and happens
\* only while the countdown is active; timeLeft stays between 0 and the time
\* limit of the difficulty the countdown was started with; at 0 the countdown
\* is inactive and timeLeft is not counted down further; the time-up state
\* and its count of an attempt come only from the tick that reaches 0 (the
\* other count is that of an evaluated submit); and a generate request that
\* cancels a running countdown leaves the tally as it is and shows no
\* time-up state.
C29_CountdownSteps ==
  [][/\ (timeLeft # Null /\ timeLeft' # Null /\ timeLeft' # timeLeft)
          => /\ isTimerActive
             /\ timeLeft > 0
             /\ timeLeft' = timeLeft - 1
     /\ (timeLeft' # Null)
          => /\ sessionId' \in 1..Len(math_problem_sessions')
             /\ timeLeft' >= 0
             /\ timeLeft' <= timeLimit(math_problem_sessions'[sessionId'].difficulty_level)
             /\ timeLeft' = 0 => ~isTimerActive'
     /\ (timeLeft = 0) => timeLeft' \in {0, Null}
     /\ (showTimeUpPopup' /\ ~showTimeUpPopup)
          => isTimerActive /\ timeLeft = 1 /\ timeLeft' = 0
     /\ (totalProblems' = totalProblems + 1 /\ subReq.phase # "replied")
          => isTimerActive /\ timeLeft = 1 /\ timeLeft' = 0 /\ showTimeUpPopup'
     /\ (isTimerActive /\ genReq.phase = "idle" /\ genReq'.phase = "sent")
          => /\ ~isTimerActive'
             /\ timeLeft' = Null
             /\ ~showTimeUpPopup'
             /\ UNCHANGED tally]_vars

\* an Expert countdown has run from 45 to 0 while the selector shows
\* Beginner: time is up and the attempt is counted
C29_Witness ==
  /\ sessionId # NoSession
  /\ math_problem_sessions[sessionId].difficulty_level = "Expert"
  /\ difficulty = "Beginner"
  /\ timeLeft = 0
  /\ ~isTimerActive
  /\ showTimeUpPopup
  /\ totalProblems = 1

\* C30: every generate request leaves the Generating state and every submit
\* request leaves the Submitting state, whatever the answer of the server.
C30_RequestsComplete ==
  /\ (isGenerating ~> (~isGenerating /\ genReq.phase = "idle"))
  /\ (isSubmitting ~> (~isSubmitting /\ subReq.phase = "idle"))

\* a generate request and a submit request are both in flight
C30_Witness ==
  /\ isGenerating
  /\ isSubmitting
  /\ genReq.phase = "sent"
  /\ subReq.phase = "sent"

\* C31: a running countdown does not run forever: the session it belongs to
\* goes on to Expired (the countdown at 0, time-up counted), to Submitted (an
\* answer for it sent for evaluation, which stops the countdown) or is
\* abandoned by a generate request or a reset (timeLeft null).  The
\* countdowns are those whose expiry the tally, counted up to MaxAttempts, can
\* still take.
C31_CountdownEnds ==
  (isTimerActive /\ timeLeft # Null /\ timeLeft > 0 /\ AttemptsLeft > 0)
    ~> \/ (timeLeft = 0 /\ ~isTimerActive)
       \/ (~isTimerActive /\ subReq.phase # "idle" /\ subReq.sessionId = sessionId)
       \/ (timeLeft = Null /\ ~isTimerActive)

\* a Beginner countdown in its last second
C31_Witness ==
  /\ isTimerActive
  /\ timeLeft = 1
  /\ AttemptsLeft > 0
  /\ sessionId # NoSession
  /\ math_problem_sessions[sessionId].difficulty_level = "Beginner"

\* C32: the store is append-only: every step leaves each existing session
\* row and each existing Submission row where and as it was, and at most
\* adds rows at the end.
C32_StoreAppendOnly ==
  [][/\ Len(math_problem_sessions') >= Len(math_problem_sessions)
     /\ \A i \in 1..Len(math_problem_sessions) :
          math_problem_sessions'[i] = math_problem_sessions[i]
     /\ Len(math_problem_submissions') >= Len(math_problem_submissions)
     /\ \A i \in 1..Len(math_problem_submissions) :
          math_problem_submissions'[i] = math_problem_submissions[i]]_vars

\* two sessions and two different Submissions are stored and a countdown
\* has expired
C32_Witness ==
  /\ Len(math_problem_sessions) = 2
  /\ Len(math_problem_submissions) = 2
  /\ math_problem_submissions[1] # math_problem_submissions[2]
  /\ timeLeft = 0
  /\ showTimeUpPopup

\* C33: a reply whose final_answer is a string that is no numeral is replaced
\* by the fallback problem, and the answer of every generated problem is a
\* number (never NaN).
C33_NonNumericAnswerRejected ==
  gen.phase = "returned"
    => /\ gen.generated.final_answer # NaN
       /\ (gen.ai.fa.type = "string" /\ NumberOfString(gen.ai.fa.str) = NaN)
            => gen.generated
                 = generateFallbackProblem(gen.problemType, gen.difficulty, gen.rnd)

\* C34: every session adds at most 1 to the attempted count and at most one
\* score delta to the total score, so the tally never counts more attempts,
\* more correct answers or more score deltas than there are sessions.
C34_OneAttemptPerSession ==
  /\ totalProblems <= Len(math_problem_sessions)
  /\ score <= Len(math_problem_sessions)
  /\ totalScore <= multiplier("Expert") * Len(math_problem_sessions)

\* C35: in every state the correct count is between 0 and the attempted
\* count, and the total score (in tenths) is between 1.0 and 2.5 points for
\* each correct answer counted.
C35_TallyBounds ==
  /\ 0 <= score
  /\ score <= totalProblems
  /\ multiplier("Beginner") * score <= totalScore
  /\ totalScore <= multiplier("Expert") * score

\* C35 witness: after an Expert answer evaluated as correct and an expired
\* countdown the tally is 1 of 2 with 2.5 points.
C35_Witness ==
  /\ score = 1 /\ totalProblems = 2 /\ totalScore = multiplier("Expert")
  /\ timeLeft = 0 /\ showTimeUpPopup
  /\ subReq.phase = "idle"

\* C36: when the result of a correct submission arrives, the total score
\* grows by the multiplier of the difficulty stored with the submission's
\* session, wherever the difficulty selector stands by then.
C36_MultiplierOfGenerationDifficulty ==
  [][(/\ subReq.phase = "replied"
      /\ subReq'.phase = "idle"
      /\ subReq.status = 200
      /\ subReq.isCorrect)
     => \E d \in Difficulties :
          /\ d = math_problem_sessions[subReq.sessionId].difficulty_level
          /\ totalScore' = totalScore + multiplier(d)]_vars

\* C37: a reset of the tally sets the correct count, the attempted count and
\* the total score to 0 and leaves the session id, the problem and the
\* countdown (timeLeft and its active flag) as they were.
C37_ResetKeepsSession ==
  [][resetScore
     => /\ score' = 0 /\ totalProblems' = 0 /\ totalScore' = 0
        /\ sessionId' = sessionId
        /\ problem' = problem
        /\ timeLeft' = timeLeft
        /\ isTimerActive' = isTimerActive]_vars

\* C38: every fallback problem of the sharing-out (division) word problem,
\* asked for as 'division' or made for 'mixed', states a total that is an
\* exact multiple of the amount per student, and its answer is the exact
\* quotient, at least 1.
C38_DivisionTemplateExact ==
  (/\ gen.phase = "returned"
   /\ ~AIReplyAccepted(gen.ai)
   /\ gen.generated.problem_text.template \in {"division", "mixed"})
    => LET total == gen.generated.problem_text.nums[1]
           each == gen.generated.problem_text.nums[2]
       IN /\ total = gen.generated.final_answer * each
          /\ gen.generated.final_answer >= 1

\* C39: when the store holds a session that has a Submission, the history
\* returned is not empty, however many newer sessions without a Submission
\* there are.
C39_HistoryShowsSubmittedSession ==
  (/\ hist.phase = "returned"
   /\ hist.status = 200
   /\ \E sid \in SessionIds : SubmissionsOf(sid) # {})
    => hist.entries # <<>>

====
